---------------------------- MODULE Spec2Model ----------------------------
(***************************************************************************)
(* Open hypergraphs (src/open_hypergraphs/open_hypergraph.py) and the      *)
(* optic functor lifting (src/open_hypergraphs/functor/optic.py).          *)
(*                                                                         *)
(* Values are immutable; every operation is a pure function.  A pure       *)
(* function is an operator; the specifications draw the arguments of a     *)
(* call from bounded sets and their actions perform the call.              *)
(*                                                                         *)
(* Arrays are sequences; array VALUES are 0-based as in the source, so     *)
(* element i of a table is tab[i + 1].                                     *)
(***************************************************************************)
EXTENDS Naturals, Sequences, FiniteSets

VARIABLES
    df, dg, dh,   \* open hypergraphs: the operands of a call, earlier results
    out,          \* what the last call returned, or Failed when it raised
    pc,           \* the last call made
    calls,        \* how many calls were made
    ox, oA, oB,   \* operations x : N -> Sigma_1 with input and output types A, B
    fun           \* the functors F and R and the residual handed to Optic

vars == <<df, dg, dh, out, pc, calls, ox, oA, oB, fun>>

-----------------------------------------------------------------------------
(* Sequence helpers *)

\* an array held as a tuple of its elements
Array(s) == s \o <<>>

RECURSIVE SumSeq(_)
SumSeq(s) == IF s = <<>> THEN 0 ELSE Head(s) + SumSeq(Tail(s))

RECURSIVE Flatten(_)
Flatten(ss) == IF ss = <<>> THEN <<>> ELSE Head(ss) \o Flatten(Tail(ss))

Prefix(s, n) == Array([i \in 1..n |-> s[i]])

\* all sequences over S of length at most n
SeqsUpTo(S, n) == UNION {[1..k -> S] : k \in 0..n}

\* the wire types Sigma_0 and the operations Sigma_1 of the signature
Types == {0, 1}
Ops == {0, 1}
NumTypes == Cardinality(Types)
NumOps == Cardinality(Ops)

-----------------------------------------------------------------------------
(* FiniteFunction: a table of length `source` with values in [0, tgt).     *)

FF(target, table) == [tgt |-> target, tab |-> Array(table)]

FFSource(f) == Len(f.tab)

FFIdentity(n) == FF(n, [i \in 1..n |-> i - 1])

FFInitial(n) == FF(n, <<>>)

FFToInitial(f) == FFInitial(f.tgt)

\* f >> g is defined when f.target == g.source
FFComposable(f, g) == f.tgt = FFSource(g)

FFCompose(f, g) == FF(g.tgt, [i \in 1..Len(f.tab) |-> g.tab[f.tab[i] + 1]])

\* f + g : the coproduct of maps into the same target
FFCoproduct(f, g) == FF(f.tgt, f.tab \o g.tab)

\* f @ g : the tensor product
FFTensor(f, g) ==
    FF(f.tgt + g.tgt, f.tab \o [i \in 1..Len(g.tab) |-> g.tab[i] + f.tgt])

FFInject0(f, b) == FF(f.tgt + b, f.tab)

FFInject1(f, a) == FF(a + f.tgt, [i \in 1..Len(f.tab) |-> f.tab[i] + a])

FFInj0(a, b) == FFInject0(FFIdentity(a), b)

FFInj1(a, b) == FFInject1(FFIdentity(b), a)

\* twist(a, b) : a + b -> b + a, the table [b, .., b+a-1, 0, .., b-1]
FFTwist(a, b) ==
    FF(a + b, [i \in 1..(a + b) |-> IF i <= a THEN b + (i - 1) ELSE i - 1 - a])

\* transpose(a, b): position i of the (b rows of a) layout is sent to the
\* (a rows of b) layout: transpose(2, n) = [0, n, 1, n+1, ...]
FFTranspose(a, b) ==
    FF(a * b, [i \in 1..(a * b) |-> IF a = 0 THEN 0
                                     ELSE ((i - 1) % a) * b + ((i - 1) \div a)])

\* start offset of block k (0-based) of a block-size vector
Offset(sizes, k) == SumSeq(Prefix(sizes, k))

\* sizes.injections(a): the coproduct over i of the injection of block a(i)
FFInjections(sizes, a) ==
    FF(SumSeq(sizes),
       Flatten([i \in 1..Len(a.tab) |->
                  [j \in 1..sizes[a.tab[i] + 1] |->
                      Offset(sizes, a.tab[i]) + (j - 1)]]))

\* One union step of the quotient: the classes of a and b are joined and
\* every member of the joined class points at its least vertex.
Union(rep, a, b) ==
    LET ra == rep[a + 1]
        rb == rep[b + 1]
        lo == IF ra <= rb THEN ra ELSE rb
        hi == IF ra <= rb THEN rb ELSE ra
    IN  Array([v \in 1..Len(rep) |-> IF rep[v] = hi THEN lo ELSE rep[v]])

RECURSIVE UnionAll(_, _, _, _)
UnionAll(rep, ft, gt, i) ==
    IF i > Len(ft) THEN rep
    ELSE UnionAll(Union(rep, ft[i], gt[i]), ft, gt, i + 1)

\* f.coequalizer(g) for f, g : A -> B; classes are numbered in the order of
\* their least vertex
FFCoequalizer(f, g) ==
    LET rep   == UnionAll(Array([v \in 1..f.tgt |-> v - 1]), f.tab, g.tab, 1)
        roots == {v \in 0..(f.tgt - 1) : rep[v + 1] = v}
    IN  FF(Cardinality(roots),
           [v \in 1..f.tgt |-> Cardinality({r \in roots : r < rep[v]})])

\* the map u : Q -> Sigma with q >> u == w.  With several writes to one
\* slot the last one stays; after compose's type check all writes agree.
FFCoequalizerUniversal(q, w) ==
    FF(w.tgt,
       [c \in 1..q.tgt |->
          LET vs == {v \in 1..Len(q.tab) : q.tab[v] = c - 1}
          IN  w.tab[CHOOSE v \in vs : \A u \in vs : u <= v]])


-----------------------------------------------------------------------------
(* IndexedCoproduct: N finite functions packed as block sizes + values.    *)

IC(sources, values) == [sources |-> Array(sources), values |-> values]

ICLen(c) == Len(c.sources)

ICInitial(target) == IC(<<>>, FFInitial(target))

\* the indexed coproduct with the single block f
ICSingleton(f) == IC(<<FFSource(f)>>, f)

\* A + B : the blocks of A followed by the blocks of B
ICConcat(a, b) == IC(a.sources \o b.sources, FFCoproduct(a.values, b.values))

\* the blocks of c re-indexed by x : block k of the result is block x(k)
ICMapIndexes(c, x) ==
    IC([k \in 1..Len(x.tab) |-> c.sources[x.tab[k] + 1]],
       FFCompose(FFInjections(c.sources, x), c.values))

\* x.flatmap(y): y has one block per element of x.values; block i of the
\* result is the concatenation of the blocks of y at the positions of
\* block i of x
ICFlatmap(c, y) ==
    IC([i \in 1..Len(c.sources) |->
          SumSeq([j \in 1..c.sources[i] |->
                    y.sources[Offset(c.sources, i - 1) + j]])],
       y.values)

\* block k (0-based) of c, as a sequence of values
ICBlock(c, k) ==
    [j \in 1..c.sources[k + 1] |-> c.values.tab[Offset(c.sources, k) + j]]

-----------------------------------------------------------------------------
(* Hypergraph: wires w, hyperedges x, ordered endpoints s and t.           *)

Hypergraph(s, t, w, x) == [s |-> s, t |-> t, w |-> w, x |-> x]

HW(H) == FFSource(H.w)

HX(H) == FFSource(H.x)

HEmpty(w, x) == Hypergraph(ICInitial(0), ICInitial(0), w, x)

\* len(w) wires and no hyperedges; defined when len(x) == 0
HDiscrete(w, x) ==
    Hypergraph(ICInitial(FFSource(w)), ICInitial(FFSource(w)), w, x)

\* G + H : the disjoint union
HSum(G, H) ==
    Hypergraph(IC(G.s.sources \o H.s.sources, FFTensor(G.s.values, H.s.values)),
               IC(G.t.sources \o H.t.sources, FFTensor(G.t.values, H.t.values)),
               FFCoproduct(G.w, H.w),
               FFCoproduct(G.x, H.x))

\* the quotient of the wires of H by q : W -> Q
HCoequalizeVertices(H, q) ==
    Hypergraph(IC(H.s.sources, FFCompose(H.s.values, q)),
               IC(H.t.sources, FFCompose(H.t.values, q)),
               FFCoequalizerUniversal(q, H.w),
               H.x)

-----------------------------------------------------------------------------
(* OpenHypergraph: a hypergraph H with interface maps s and t.  A call     *)
(* that raises produces Failed and no value.                               *)

Failed == [ok |-> FALSE]

\* the dataclass constructor; all arrays of the model share one dtype, so
\* the dtype check of __post_init__ passes
OpenHypergraph(s, t, H) == [ok |-> TRUE, s |-> s, t |-> t, H |-> H]

\* f.source and f.target are defined when the interface map composes with H.w
HasSource(f) == FFComposable(f.s, f.H.w)

HasTarget(f) == FFComposable(f.t, f.H.w)

Source(f) == FFCompose(f.s, f.H.w)

Target(f) == FFCompose(f.t, f.H.w)

\* a faulty identity: the interface tables are zeros instead of 0..n-1
IdentityZeros(w, x) ==
    IF FFSource(x) # 0 THEN Failed
    ELSE OpenHypergraph(FF(FFSource(w), [i \in 1..FFSource(w) |-> 0]),
                        FF(FFSource(w), [i \in 1..FFSource(w) |-> 0]),
                        HDiscrete(w, x))

Identity(w, x) ==
    IF FFSource(x) # 0 THEN Failed
    ELSE OpenHypergraph(FFIdentity(FFSource(w)), FFIdentity(FFSource(w)),
                        HDiscrete(w, x))

\* a faulty tensor: the hypergraphs are joined in the wrong order
TensorSwappedH(f, g) ==
    IF ~(f.ok /\ g.ok) THEN Failed
    ELSE OpenHypergraph(FFTensor(f.s, g.s), FFTensor(f.t, g.t), HSum(g.H, f.H))

\* (an operand that is Failed stands for a call that raised before this one)
Tensor(f, g) ==
    IF ~(f.ok /\ g.ok) THEN Failed
    ELSE OpenHypergraph(FFTensor(f.s, g.s), FFTensor(f.t, g.t), HSum(f.H, g.H))

\* a faulty quotient: g.s is not shifted into the right half
QuotientUnshifted(f, g) ==
    FFCoequalizer(FFInject0(f.t, HW(g.H)), FFInject0(g.s, HW(f.H)))

\* the coequalizer of f.t (left half) and g.s (right half)
ComposeQuotient(f, g) ==
    FFCoequalizer(FFInject0(f.t, HW(g.H)), FFInject1(g.s, HW(f.H)))

\* a faulty compose: only the lengths of the interfaces are compared
ComposeLengthOnly(f, g) ==
    IF ~(f.ok /\ g.ok) THEN Failed
    ELSE IF ~(HasTarget(f) /\ HasSource(g)) THEN Failed
    ELSE IF FFSource(f.t) # FFSource(g.s) THEN Failed
    ELSE LET h == Tensor(f, g)
             q == ComposeQuotient(f, g)
         IN  OpenHypergraph(FFCompose(FFInject0(f.s, HW(g.H)), q),
                            FFCompose(FFInject1(g.t, HW(f.H)), q),
                            HCoequalizeVertices(h.H, q))

\* a faulty compose: the output interface g.t is not shifted into the right half
ComposeTargetUnshifted(f, g) ==
    IF ~(f.ok /\ g.ok) THEN Failed
    ELSE IF ~(HasTarget(f) /\ HasSource(g)) THEN Failed
    ELSE IF Target(f) # Source(g) THEN Failed
    ELSE LET h == Tensor(f, g)
             q == ComposeQuotient(f, g)
         IN  OpenHypergraph(FFCompose(FFInject0(f.s, HW(g.H)), q),
                            FFCompose(FFInject0(g.t, HW(f.H)), q),
                            HCoequalizeVertices(h.H, q))

Compose(f, g) ==
    IF ~(f.ok /\ g.ok) THEN Failed
    ELSE IF ~(HasTarget(f) /\ HasSource(g)) THEN Failed
    ELSE IF Target(f) # Source(g) THEN Failed
    ELSE LET h == Tensor(f, g)
             q == ComposeQuotient(f, g)
             s == FFInject0(f.s, HW(g.H))
             t == FFInject1(g.t, HW(f.H))
         IN  IF ~(FFComposable(s, q) /\ FFComposable(t, q)) THEN Failed
             ELSE OpenHypergraph(FFCompose(s, q), FFCompose(t, q),
                                 HCoequalizeVertices(h.H, q))

Unit(w, x) ==
    IF FFSource(w) # 0 \/ FFSource(x) # 0 THEN Failed
    ELSE OpenHypergraph(FFInitial(0), FFInitial(0), HEmpty(w, x))

Twist(a, b, x) ==
    IF FFSource(x) # 0 THEN Failed
    ELSE OpenHypergraph(FFTwist(FFSource(a), FFSource(b)),
                        FFIdentity(FFSource(a) + FFSource(b)),
                        HDiscrete(FFCoproduct(b, a), x))

Dagger(f) == IF ~f.ok THEN Failed ELSE OpenHypergraph(f.t, f.s, f.H)

Spider(s, t, w, x) ==
    IF FFSource(x) # 0 THEN Failed
    ELSE OpenHypergraph(s, t, HDiscrete(w, x))

HalfSpider(s, w, x) == Spider(s, FFIdentity(FFSource(w)), w, x)

Singleton(x, a, b) ==
    IF FFSource(x) # 1 THEN Failed
    ELSE IF a.tgt # b.tgt THEN Failed
    ELSE LET s == FFInj0(FFSource(a), FFSource(b))
             t == FFInj1(FFSource(a), FFSource(b))
         IN  OpenHypergraph(s, t,
                 Hypergraph(ICSingleton(s), ICSingleton(t), FFCoproduct(a, b), x))

TensorOperations(x, a, b) ==
    IF b.values.tgt # a.values.tgt THEN Failed
    ELSE IF FFSource(x) # ICLen(a) \/ FFSource(x) # ICLen(b) THEN Failed
    ELSE LET s == FFInj0(FFSource(a.values), FFSource(b.values))
             t == FFInj1(FFSource(a.values), FFSource(b.values))
         IN  OpenHypergraph(s, t,
                 Hypergraph(IC(a.sources, s), IC(b.sources, t),
                            FFCoproduct(a.values, b.values), x))

-----------------------------------------------------------------------------
(* Optic: the lifting of a forward functor F and a reverse functor R.      *)
(*                                                                         *)
(* F, R and residual are supplied by the user of the class.  Here a        *)
(* functor sends a wire of type a to a block of k[a] wires, of type a or   *)
(* (flip) of the other type; `extra` empty blocks are appended by a        *)
(* functor that breaks the contract of one block per object.  The image    *)
(* of the operations x[i] : A_i -> B_i is one hyperedge per operation.     *)

FunctorType(fn, a) == IF fn.flip THEN (NumTypes - 1) - a ELSE a

\* fn.map_objects(A) for A : a list of wire types
FunctorObjects(fn, A) ==
    IC([i \in 1..Len(A.tab) |-> fn.k[A.tab[i]]] \o [i \in 1..fn.extra |-> 0],
       FF(A.tgt, Flatten([i \in 1..Len(A.tab) |->
                            [j \in 1..fn.k[A.tab[i]] |-> FunctorType(fn, A.tab[i])]])))

\* residual(x, A, B): the block m[x[i]] for operation i
Residual(m, x, A, B) ==
    IC([i \in 1..Len(x.tab) |-> Len(m[x.tab[i]])],
       FF(NumTypes, Flatten([i \in 1..Len(x.tab) |-> m[x.tab[i]]])))

\* (P_0 + Q_0) + (P_1 + Q_1) + ... , block by block
Interleaved(P, Q) ==
    IC([i \in 1..ICLen(P) |-> P.sources[i] + Q.sources[i]],
       FF(P.values.tgt,
          Flatten([i \in 1..ICLen(P) |-> ICBlock(P, i - 1) \o ICBlock(Q, i - 1)])))

\* F.map_operations(x, A, B) : FA_0 .. FA_n -> (FB_0 M_0) .. (FB_n M_n)
ForwardOperations(fn, m, x, A, B) ==
    TensorOperations(x,
        ICFlatmap(A, FunctorObjects(fn, A.values)),
        Interleaved(ICFlatmap(B, FunctorObjects(fn, B.values)), Residual(m, x, A, B)))

\* R.map_operations(x, A, B) : (M_0 RB_0) .. (M_n RB_n) -> RA_0 .. RA_n
ReverseOperations(fn, m, x, A, B) ==
    TensorOperations(x,
        Interleaved(Residual(m, x, A, B), ICFlatmap(B, FunctorObjects(fn, B.values))),
        ICFlatmap(A, FunctorObjects(fn, A.values)))

\* a faulty interleaving: source and target are exchanged
InterleaveBlocksReversed(A, B, x) ==
    IF ICLen(A) # ICLen(B) THEN Failed
    ELSE LET AB == ICConcat(A, B)
             s  == FFIdentity(FFSource(AB.values))
             t  == FFInjections(AB.sources, FFTranspose(2, ICLen(A)))
         IN  Spider(t, s, AB.values, x)

InterleaveBlocks(A, B, x) ==
    IF ICLen(A) # ICLen(B) THEN Failed
    ELSE LET AB == ICConcat(A, B)
             s  == FFIdentity(FFSource(AB.values))
             t  == FFInjections(AB.sources, FFTranspose(2, ICLen(A)))
         IN  Spider(s, t, AB.values, x)

\* a faulty object map: the two halves are not interleaved
MapObjectsStraight(F, R, A) ==
    LET FA == FunctorObjects(F, A)
        RA == FunctorObjects(R, A)
    IN  IF ICLen(FA) # ICLen(RA) THEN Failed
        ELSE [ok |-> TRUE,
              sources |-> Array([i \in 1..ICLen(FA) |-> FA.sources[i] + RA.sources[i]]),
              values |-> ICConcat(FA, RA).values]

MapObjects(F, R, A) ==
    LET FA == FunctorObjects(F, A)
        RA == FunctorObjects(R, A)
    IN  IF ICLen(FA) # ICLen(RA) THEN Failed
        ELSE LET n == ICLen(FA)
                 paired == ICConcat(FA, RA)
                 p == FFTranspose(2, n)
             IN  [ok |-> TRUE,
                  sources |-> Array([i \in 1..n |-> FA.sources[i] + RA.sources[i]]),
                  values |-> ICMapIndexes(paired, p).values]

MapOperations(F, R, m, x, A, B) ==
    LET fwd == ForwardOperations(F, m, x, A, B)
        rev == ReverseOperations(R, m, x, A, B)
        FA  == FunctorObjects(F, A.values)
        FB  == FunctorObjects(F, B.values)
        RA  == FunctorObjects(R, A.values)
        RB  == FunctorObjects(R, B.values)
        M   == Residual(m, x, A, B)
        x0  == FFToInitial(x)
        fwd_interleave   == InterleaveBlocks(ICFlatmap(B, FB), M, x0)
        rev_cointerleave == Dagger(InterleaveBlocks(M, ICFlatmap(B, RB), x0))
    IN  IF ~(fwd.ok /\ rev.ok /\ fwd_interleave.ok /\ rev_cointerleave.ok) THEN Failed
        ELSE IF Target(fwd) # Source(fwd_interleave) THEN Failed
        ELSE IF Target(rev_cointerleave) # Source(rev) THEN Failed
        ELSE
        LET i_FB == Identity(FB.values, x0)
            i_RB == Identity(RB.values, x0)
            lhs  == Tensor(Compose(fwd, fwd_interleave), i_RB)
            rhs  == Tensor(i_FB, Compose(rev_cointerleave, rev))
            c    == Compose(lhs, rhs)
        IN  IF ~c.ok THEN Failed
            ELSE
            LET nFA == FFSource(FA.values)
                nFB == FFSource(FB.values)
                nRA == FFSource(RA.values)
                nRB == FFSource(RB.values)
                s_i == FFCompose(FFInj0(nFA, nRB), c.s)
                s_o == FFCompose(FFInj1(nFB, nRA), c.t)
                t_i == FFCompose(FFInj0(nFB, nRA), c.t)
                t_o == FFCompose(FFInj1(nFA, nRB), c.s)
                d   == OpenHypergraph(FFCoproduct(s_i, s_o), FFCoproduct(t_i, t_o), c.H)
            IN  Compose(Compose(Dagger(InterleaveBlocks(FA, RA, x0)), d),
                        InterleaveBlocks(FB, RB, x0))

-----------------------------------------------------------------------------
(* Arguments of the calls: every open hypergraph up to a size.             *)

\* size of an operand: 2 per wire + 1 per interface port + per hyperedge
\* 2 + its ports
MaxSize == 6

WireTypes(n) == UNION {[1..k -> Types] : k \in 0..(n \div 2)}

\* at most one hyperedge of total size at most k over wires 0..W-1:
\* <<labels, source tuples, target tuples>>
EdgeChoices(W, k) ==
    {<<<<>>, <<>>, <<>>>>} \cup
    UNION {UNION {{<<<<l>>, <<a>>, <<b>>>> :
                     l \in Ops,
                     a \in [1..c -> 0..(W - 1)],
                     b \in [1..d -> 0..(W - 1)]} :
                  d \in 0..(k - 2 - c)} : c \in 0..(k - 2)}

EdgeSize(e) == 2 * Len(e[1]) + Len(Flatten(e[2])) + Len(Flatten(e[3]))

MkDiagram(w, s, t, e) ==
    OpenHypergraph(FF(Len(w), s), FF(Len(w), t),
        Hypergraph(IC([i \in 1..Len(e[2]) |-> Len(e[2][i])], FF(Len(w), Flatten(e[2]))),
                   IC([i \in 1..Len(e[3]) |-> Len(e[3][i])], FF(Len(w), Flatten(e[3]))),
                   FF(NumTypes, w), FF(NumOps, e[1])))

\* the well-formed open hypergraphs on the wires w with k ports to spend
DiagramsOn(w, k) ==
    LET W == Len(w)
    IN  UNION {UNION {UNION {{MkDiagram(w, s, t, e) :
                                s \in [1..a -> 0..(W - 1)],
                                t \in [1..b -> 0..(W - 1)]} :
                             b \in 0..(k - EdgeSize(e) - a)} :
                      a \in 0..(k - EdgeSize(e))} :
               e \in EdgeChoices(W, k)}

Diagrams(n) == UNION {DiagramsOn(w, n - 2 * Len(w)) : w \in WireTypes(n)}

Operands == Diagrams(MaxSize)

NoValue == [ok |-> FALSE, none |-> TRUE]

-----------------------------------------------------------------------------
(* Sequential composition: f >> g for every pair of operands.              *)

InitCompose ==
    /\ df \in Operands
    /\ dg \in Operands
    /\ dh = NoValue
    /\ out = NoValue
    /\ pc = "args"
    /\ calls = 0
    /\ ox = NoValue /\ oA = NoValue /\ oB = NoValue /\ fun = NoValue

\* out = f >> g
CallCompose ==
    /\ pc = "args"
    /\ out' = Compose(df, dg)
    /\ pc' = "compose"
    /\ calls' = 1
    /\ UNCHANGED <<df, dg, dh, ox, oA, oB, fun>>

NextCompose == CallCompose

SpecCompose == InitCompose /\ [][NextCompose]_vars

\* the type sequence along an interface map, read off wire by wire
TypesAlong(m, d) == [i \in 1..Len(m.tab) |-> d.H.w.tab[m.tab[i] + 1]]

Composed == pc = "compose"

\* C1: when the output types of f and the input types of g disagree (in
\* length or at some position), f >> g fails and returns no open hypergraph.
C1_MismatchFails ==
    (Composed /\ TypesAlong(df.t, df) # TypesAlong(dg.s, dg)) => out = Failed

\* a failed composition of interfaces of equal length and one of unequal length
C1_Witness ==
    /\ Composed
    /\ out = Failed
    /\ Len(df.t.tab) = 2
    /\ Len(dg.s.tab) = 2
    /\ TypesAlong(df.t, df) # TypesAlong(dg.s, dg)

\* C2: for composable f and g, h = f >> g has the source types of f and the
\* target types of g; h.s is f.s injected left then quotiented by q and h.t
\* is g.t injected right then quotiented by q.
C2_Signature ==
    (Composed /\ TypesAlong(df.t, df) = TypesAlong(dg.s, dg)) =>
        /\ out.ok
        /\ TypesAlong(out.s, out) = TypesAlong(df.s, df)
        /\ TypesAlong(out.t, out) = TypesAlong(dg.t, dg)
        /\ Source(out) = Source(df)
        /\ Target(out) = Target(dg)
        /\ LET q == ComposeQuotient(df, dg)
           IN  /\ out.s.tab = [i \in 1..Len(df.s.tab) |-> q.tab[df.s.tab[i] + 1]]
               /\ out.t.tab = [i \in 1..Len(dg.t.tab) |->
                                 q.tab[dg.t.tab[i] + HW(df.H) + 1]]

\* a composite with wires merged and both wire types on its interfaces
C2_Witness ==
    /\ Composed
    /\ out.ok
    /\ HW(out.H) < HW(df.H) + HW(dg.H)
    /\ TypesAlong(out.s, out) = <<1>>
    /\ TypesAlong(out.t, out) = <<0>>

\* the pairs (f.t[i] in the left half, g.s[i] in the right half)
GluedPairs(f, g) ==
    {<<f.t.tab[i], HW(f.H) + g.s.tab[i]>> : i \in 1..Len(f.t.tab)}

\* the vertices linked to a vertex of S by a chain of pairs of P
RECURSIVE Chain(_, _)
Chain(S, P) ==
    LET T == S \cup {p[2] : p \in {r \in P : r[1] \in S}}
               \cup {p[1] : p \in {r \in P : r[2] \in S}}
    IN  IF T = S THEN S ELSE Chain(T, P)

\* C8: the quotient q of f >> g identifies two vertices of f.H + g.H exactly
\* when a chain of pairs (f.t[i], g.s[i]) links them; a vertex outside the
\* images of f.t and g.s stays alone; the composite has one vertex per class;
\* its hyperedges are those of f then those of g, endpoints renamed by q.
C8_Quotient ==
    (Composed /\ out.ok) =>
        LET q  == ComposeQuotient(df, dg)
            Wf == HW(df.H)
            V  == 0..(Wf + HW(dg.H) - 1)
            P  == GluedPairs(df, dg)
            glued == {p[1] : p \in P} \cup {p[2] : p \in P}
            ends(m, off) == [i \in 1..Len(m.tab) |-> q.tab[m.tab[i] + off + 1]]
        IN  /\ \A u, v \in V :
                 (q.tab[u + 1] = q.tab[v + 1]) <=> (v \in Chain({u}, P))
            /\ \A v \in V \ glued :
                 \A u \in V \ {v} : q.tab[u + 1] # q.tab[v + 1]
            /\ HW(out.H) = Cardinality({Chain({v}, P) : v \in V})
            /\ out.H.x.tab = df.H.x.tab \o dg.H.x.tab
            /\ out.H.s.sources = df.H.s.sources \o dg.H.s.sources
            /\ out.H.t.sources = df.H.t.sources \o dg.H.t.sources
            /\ out.H.s.values.tab = ends(df.H.s.values, 0) \o ends(dg.H.s.values, Wf)
            /\ out.H.t.values.tab = ends(df.H.t.values, 0) \o ends(dg.H.t.values, Wf)

\* a composite with a class of three vertices and a vertex that stays alone
C8_Witness ==
    /\ Composed
    /\ out.ok
    /\ LET P == GluedPairs(df, dg)
           V == 0..(HW(df.H) + HW(dg.H) - 1)
       IN  /\ \E v \in V : Cardinality(Chain({v}, P)) = 3
           /\ \E v \in V : v \notin {p[1] : p \in P} \cup {p[2] : p \in P}

\* a composite that carries a hyperedge of g whose endpoint was renamed
C8_WitnessEdge ==
    /\ Composed
    /\ out.ok
    /\ HX(df.H) = 1
    /\ HX(dg.H) = 1
    /\ df.H.x # dg.H.x
    /\ dg.H.s.values.tab # <<>>
    /\ out.H.s.values.tab # df.H.s.values.tab \o dg.H.s.values.tab

-----------------------------------------------------------------------------
(* Equality up to a renumbering of the wires.                              *)

\* every place of d that names a wire, in a fixed order
WireRefs(d) == d.s.tab \o d.t.tab \o d.H.s.values.tab \o d.H.t.values.tab

\* the wires in the order of their first mention in refs
RECURSIVE FirstMentions(_, _)
FirstMentions(refs, seen) ==
    IF refs = <<>> THEN <<>>
    ELSE IF Head(refs) \in seen THEN FirstMentions(Tail(refs), seen)
    ELSE <<Head(refs)>> \o FirstMentions(Tail(refs), seen \cup {Head(refs)})

\* d with its mentioned wires renumbered in the order of first mention; the
\* wires nothing mentions are kept as a count per type.  A bijection of
\* wires that carries one open hypergraph to another is forced on the
\* mentioned wires and free on the others, so two open hypergraphs are equal
\* up to renumbering exactly when their normal forms are equal.
Normal(d) ==
    LET order == FirstMentions(WireRefs(d), {})
        num(v) == CHOOSE k \in 1..Len(order) : order[k] = v
        ren(tab) == [i \in 1..Len(tab) |-> num(tab[i])]
        named == {order[k] : k \in 1..Len(order)}
    IN  [s |-> ren(d.s.tab), t |-> ren(d.t.tab),
         hs |-> ren(d.H.s.values.tab), ht |-> ren(d.H.t.values.tab),
         ss |-> d.H.s.sources, ts |-> d.H.t.sources, x |-> d.H.x,
         w |-> [k \in 1..Len(order) |-> d.H.w.tab[order[k] + 1]],
         free |-> [ty \in Types |->
                     Cardinality({v \in 0..(HW(d.H) - 1) :
                                    v \notin named /\ d.H.w.tab[v + 1] = ty})],
         sigma |-> d.H.w.tgt]

Isomorphic(a, b) == a.ok /\ b.ok /\ Normal(a) = Normal(b)

-----------------------------------------------------------------------------
(* The identity laws: identity(A) >> f and f >> identity(B) for f : A -> B *)

\* f ranges over larger operands than the operands of a binary call
IdentityOperands == Diagrams(MaxSize + 2)

InitIdentity ==
    /\ df \in IdentityOperands
    /\ dg = NoValue
    /\ dh = NoValue
    /\ out = NoValue
    /\ pc = "args"
    /\ calls = 0
    /\ ox = NoValue /\ oA = NoValue /\ oB = NoValue /\ fun = NoValue

\* dg = identity(A) >> f and dh = f >> identity(B)
CallIdentityLaws ==
    /\ pc = "args"
    /\ dg' = Compose(Identity(Source(df), FFToInitial(df.H.x)), df)
    /\ dh' = Compose(df, Identity(Target(df), FFToInitial(df.H.x)))
    /\ pc' = "identity"
    /\ calls' = 2
    /\ UNCHANGED <<df, out, ox, oA, oB, fun>>

NextIdentity == CallIdentityLaws

SpecIdentity == InitIdentity /\ [][NextIdentity]_vars

\* C3 as stated: identity(A) >> f == f and f >> identity(B) == f, component
\* by component.
C3_StrictIdentity == (pc = "identity") => (dg = df /\ dh = df)

\* C3 amended: identity(A) >> f equals f up to a renumbering of the wires,
\* with the same source and target types, and f >> identity(B) == f
\* component by component.
C3_IdentityUpToRenumbering ==
    (pc = "identity") =>
        /\ Isomorphic(dg, df)
        /\ Source(dg) = Source(df)
        /\ Target(dg) = Target(df)
        /\ dh = df

\* f whose input interface is neither injective nor surjective, and whose
\* left composite differs from f
C3_Witness ==
    /\ pc = "identity"
    /\ dg # df
    /\ Isomorphic(dg, df)
    /\ df.s.tab = <<1, 1>>
    /\ HW(df.H) = 2

\* f with empty interfaces
C3_WitnessEmpty ==
    /\ pc = "identity"
    /\ df.s.tab = <<>>
    /\ df.t.tab = <<>>
    /\ HW(df.H) = 2
    /\ dg = df
    /\ dh = df

-----------------------------------------------------------------------------
(* Associativity: (f >> g) >> h and f >> (g >> h) for composable f, g, h   *)

\* the outer operands f and h are smaller than the middle operand g
OuterOperands == Diagrams(MaxSize - 2)

\* the operands with a given sequence of source types
WithSource == [sig \in SeqsUpTo(Types, MaxSize) |->
                 {d \in Operands : Source(d).tab = sig}]

OuterWithSource == [sig \in SeqsUpTo(Types, MaxSize) |->
                      {d \in OuterOperands : Source(d).tab = sig}]

InitAssoc ==
    /\ df \in OuterOperands
    /\ dg \in WithSource[Target(df).tab]
    /\ dh \in OuterWithSource[Target(dg).tab]
    /\ out = NoValue
    /\ pc = "args"
    /\ calls = 0
    /\ ox = NoValue /\ oA = NoValue /\ oB = NoValue /\ fun = NoValue

\* out = <<(f >> g) >> h, f >> (g >> h)>>
CallAssoc ==
    /\ pc = "args"
    /\ out' = [left  |-> LET fg == Compose(df, dg)
                         IN  IF fg.ok THEN Compose(fg, dh) ELSE Failed,
               right |-> LET gh == Compose(dg, dh)
                         IN  IF gh.ok THEN Compose(df, gh) ELSE Failed]
    /\ pc' = "assoc"
    /\ calls' = 1
    /\ UNCHANGED <<df, dg, dh, ox, oA, oB, fun>>

NextAssoc == CallAssoc

SpecAssoc == InitAssoc /\ [][NextAssoc]_vars

\* C4: for composable f, g, h both (f >> g) >> h and f >> (g >> h) are
\* defined, and they are equal up to a bijection of wires that preserves
\* wire types, hyperedges and their ordered endpoints, and under which the
\* interface maps coincide position by position.
C4_Associative ==
    (pc = "assoc") =>
        /\ out.left.ok
        /\ out.right.ok
        /\ Isomorphic(out.left, out.right)

\* a triple whose two bracketings merge wires of all three operands into
\* one wire, with a hyperedge in the middle operand
C4_Witness ==
    /\ pc = "assoc"
    /\ out.left.ok
    /\ HW(df.H) = 1 /\ HW(dg.H) = 1 /\ HW(dh.H) = 1
    /\ HW(out.left.H) = 1
    /\ HX(dg.H) = 1
    /\ Isomorphic(out.left, out.right)

\* (diagnostic) the two bracketings are equal component by component
AssocStrict == (pc = "assoc") => out.left = out.right

-----------------------------------------------------------------------------
(* Any sequence of calls: the constructors on arbitrary arguments, and      *)
(* dagger, tensor and compose on earlier results.  df is the latest value  *)
(* returned and dg the one before it; a call that raises returns nothing.  *)

\* the calls of one run
MaxCalls == 3

\* the length of an array argument
MaxArg == 1

\* arguments w, a, b : the types of some wires
ArgTypes == {FF(NumTypes, w) : w \in SeqsUpTo(Types, MaxArg)}

\* arguments x : operation labels
ArgOps == {FF(NumOps, x) : x \in SeqsUpTo(Ops, MaxArg)}

\* arguments s, t : any finite function k -> n
ArgMaps == UNION {{FF(n, m) : m \in SeqsUpTo(0..(n - 1), MaxArg)} : n \in 0..(MaxArg + 1)}

\* arguments a, b of tensor_operations: at most MaxArg blocks of one wire
ArgBlocks == {IC([i \in 1..Len(w) |-> 1], FF(NumTypes, w)) : w \in SeqsUpTo(Types, MaxArg)}
                 \cup {IC(<<0>>, FFInitial(NumTypes))}

Init ==
    /\ df = NoValue
    /\ dg = NoValue
    /\ dh = NoValue
    /\ out = NoValue
    /\ pc = "start"
    /\ calls = 0
    /\ ox = NoValue /\ oA = NoValue /\ oB = NoValue /\ fun = NoValue

\* the call `name` returned r, or raised when r = Failed
Return(name, r) ==
    /\ calls' = calls + 1
    /\ pc' = name
    /\ out' = r
    /\ df' = IF r.ok THEN r ELSE df
    /\ dg' = IF r.ok THEN df ELSE dg
    /\ UNCHANGED <<dh, ox, oA, oB, fun>>

CallIdentity ==
    /\ calls < MaxCalls
    /\ \E w \in ArgTypes, x \in ArgOps : Return("identity", Identity(w, x))

CallUnit ==
    /\ calls < MaxCalls
    /\ \E w \in ArgTypes, x \in ArgOps : Return("unit", Unit(w, x))

CallTwist ==
    /\ calls < MaxCalls
    /\ \E a \in ArgTypes, b \in ArgTypes, x \in ArgOps :
          Return("twist", Twist(a, b, x))

CallSpider ==
    /\ calls < MaxCalls
    /\ \E s \in ArgMaps, t \in ArgMaps, w \in ArgTypes, x \in ArgOps :
          Return("spider", Spider(s, t, w, x))

CallHalfSpider ==
    /\ calls < MaxCalls
    /\ \E s \in ArgMaps, w \in ArgTypes, x \in ArgOps :
          Return("half_spider", HalfSpider(s, w, x))

CallSingleton ==
    /\ calls < MaxCalls
    /\ \E x \in ArgOps, a \in ArgTypes, b \in ArgTypes :
          Return("singleton", Singleton(x, a, b))

CallTensorOperations ==
    /\ calls < MaxCalls
    /\ \E x \in ArgOps, a \in ArgBlocks, b \in ArgBlocks :
          Return("tensor_operations", TensorOperations(x, a, b))

CallDagger ==
    /\ calls < MaxCalls
    /\ df.ok
    /\ Return("dagger", Dagger(df))

CallTensor ==
    /\ calls < MaxCalls
    /\ df.ok /\ dg.ok
    /\ Return("tensor", Tensor(dg, df))

CallComposeResults ==
    /\ calls < MaxCalls
    /\ df.ok /\ dg.ok
    /\ Return("compose", Compose(dg, df))

Next ==
    \/ CallIdentity
    \/ CallUnit
    \/ CallTwist
    \/ CallSpider
    \/ CallHalfSpider
    \/ CallSingleton
    \/ CallTensorOperations
    \/ CallDagger
    \/ CallTensor
    \/ CallComposeResults

Spec == Init /\ [][Next]_vars

WellFormed(d) ==
    LET W == HW(d.H)
        below(tab) == \A i \in 1..Len(tab) : tab[i] < W
    IN  /\ below(d.s.tab)
        /\ below(d.t.tab)
        /\ below(d.H.s.values.tab)
        /\ below(d.H.t.values.tab)
        /\ SumSeq(d.H.s.sources) = Len(d.H.s.values.tab)
        /\ SumSeq(d.H.t.sources) = Len(d.H.t.values.tab)
        /\ Len(d.H.s.sources) = HX(d.H)
        /\ Len(d.H.t.sources) = HX(d.H)
        /\ \A v \in 1..W : d.H.w.tab[v] \in Types

\* C5: whatever the sequence of calls and their arguments, a call either
\* fails or returns a well-formed open hypergraph: every value of s and t
\* and every endpoint of every hyperedge is < H.W.
C5_ReturnsWellFormed == out.ok => WellFormed(out)

-----------------------------------------------------------------------------
(* Block interleaving: interleave_blocks(A, B, x) and its round trip.      *)

\* the number of blocks of an argument
MaxBlocks == 3

\* the blocks of an argument
Blocks == {<<>>, <<0>>, <<1>>, <<0, 1>>}

MkBlocks(bs) == IC([i \in 1..Len(bs) |-> Len(bs[i])], FF(NumTypes, Flatten(bs)))

BlockLists(n) == {MkBlocks(bs) : bs \in SeqsUpTo(Blocks, n)}

InitInterleave ==
    /\ oA \in BlockLists(MaxBlocks)
    /\ oB \in BlockLists(MaxBlocks)
    /\ ox = FFInitial(NumOps)
    /\ df = NoValue /\ dg = NoValue /\ dh = NoValue /\ out = NoValue
    /\ pc = "args"
    /\ calls = 0
    /\ fun = NoValue

\* out = interleave_blocks(A, B, x) and dh = out >> out.dagger()
CallInterleaveBlocks ==
    /\ pc = "args"
    /\ out' = InterleaveBlocks(oA, oB, ox)
    /\ dh' = Compose(InterleaveBlocks(oA, oB, ox), Dagger(InterleaveBlocks(oA, oB, ox)))
    /\ pc' = "interleave"
    /\ calls' = 2
    /\ UNCHANGED <<df, dg, ox, oA, oB, fun>>

NextInterleave == CallInterleaveBlocks

SpecInterleave == InitInterleave /\ [][NextInterleave]_vars

\* the position in A ++ B of each element of (A_0 B_0) (A_1 B_1) ...
Origins(A, B) ==
    Flatten([i \in 1..ICLen(A) |->
               [j \in 1..A.sources[i] |-> Offset(A.sources, i - 1) + j]
               \o [j \in 1..B.sources[i] |->
                     SumSeq(A.sources) + Offset(B.sources, i - 1) + j]])

\* C10: for A and B of equal length N >= 0, interleave_blocks(A, B, x) has
\* no hyperedges, its source types are A_0 .. A_n B_0 .. B_n, its target
\* types are A_0 B_0 A_1 B_1 .. , target position k is on the wire of the
\* source position holding that element, and interleave_blocks >> its
\* dagger is the identity on A ++ B.
C10_Interleave ==
    (pc = "interleave" /\ ICLen(oA) = ICLen(oB)) =>
        /\ out.ok
        /\ HX(out.H) = 0
        /\ out.H.s.sources = <<>>
        /\ out.H.t.sources = <<>>
        /\ TypesAlong(out.s, out) = oA.values.tab \o oB.values.tab
        /\ TypesAlong(out.t, out) =
              Flatten([i \in 1..ICLen(oA) |-> ICBlock(oA, i - 1) \o ICBlock(oB, i - 1)])
        /\ LET org == Origins(oA, oB)
           IN  /\ Len(out.t.tab) = Len(org)
               /\ \A k \in 1..Len(org) : out.t.tab[k] = out.s.tab[org[k]]
        /\ dh = Identity(ICConcat(oA, oB).values, ox)

\* three blocks each, of sizes 0, 1 and 2, where the interleaving moves wires
C10_Witness ==
    /\ pc = "interleave"
    /\ out.ok
    /\ oA.sources = <<1, 0, 2>>
    /\ oB.sources = <<2, 1, 0>>
    /\ out.t # out.s

\* no blocks at all
C10_WitnessEmpty ==
    /\ pc = "interleave"
    /\ out.ok
    /\ oA.sources = <<>>
    /\ oB.sources = <<>>
    /\ dh.ok

-----------------------------------------------------------------------------
(* Optic.map_objects(A)                                                    *)

\* the length of the object list A
MaxObjects == 2

BlockSizes == {0, 1, 2}

Functors == [k : [Types -> BlockSizes], flip : BOOLEAN, extra : {0}]

\* functors, and those that return one block too many
AnyFunctors == [k : [Types -> BlockSizes], flip : BOOLEAN, extra : {0, 1}]

InitMapObjects ==
    /\ oA \in {FF(NumTypes, a) : a \in SeqsUpTo(Types, MaxObjects)}
    /\ fun \in [F : Functors, R : AnyFunctors]
    /\ oB = NoValue /\ ox = NoValue
    /\ df = NoValue /\ dg = NoValue /\ dh = NoValue /\ out = NoValue
    /\ pc = "args"
    /\ calls = 0

\* out = Optic.map_objects(A)
CallMapObjects ==
    /\ pc = "args"
    /\ out' = MapObjects(fun.F, fun.R, oA)
    /\ pc' = "map_objects"
    /\ calls' = 1
    /\ UNCHANGED <<df, dg, dh, ox, oA, oB, fun>>

NextMapObjects == CallMapObjects

SpecMapObjects == InitMapObjects /\ [][NextMapObjects]_vars

\* C7: when F.map_objects(A) and R.map_objects(A) both have n blocks,
\* Optic.map_objects(A) has n blocks, block i is block i of F(A) followed by
\* block i of R(A), and it has |F(A)| + |R(A)| values; also for n = 0.
C7_MapObjects ==
    LET FA == FunctorObjects(fun.F, oA)
        RA == FunctorObjects(fun.R, oA)
    IN  (pc = "map_objects" /\ ICLen(FA) = ICLen(RA)) =>
            /\ out.ok
            /\ Len(out.sources) = ICLen(FA)
            /\ \A i \in 1..ICLen(FA) :
                  /\ out.sources[i] = FA.sources[i] + RA.sources[i]
                  /\ ICBlock(out, i - 1) = ICBlock(FA, i - 1) \o ICBlock(RA, i - 1)
            /\ SumSeq(out.sources) = Len(out.values.tab)
            /\ Len(out.values.tab) = Len(FA.values.tab) + Len(RA.values.tab)

\* two objects whose F and R blocks have different sizes and types
C7_Witness ==
    /\ pc = "map_objects"
    /\ out.ok
    /\ oA.tab = <<0, 1>>
    /\ out.sources = <<3, 1>>
    /\ out.values.tab = <<0, 0, 1, 1>>

\* the empty object list
C7_WitnessEmpty ==
    /\ pc = "map_objects"
    /\ out.ok
    /\ oA.tab = <<>>
    /\ out.sources = <<>>

-----------------------------------------------------------------------------
(* Optic.map_operations(x, A, B)                                           *)

\* the number N of operations
MaxOperations == 2

\* the input and output types of one operation
Arities == {<<>>, <<0>>, <<1>>}

\* the residual of one operation
Residuals == {<<>>, <<0>>, <<1>>, <<0, 0>>}

ForwardFunctors == [k : [Types -> {1, 2}], flip : {FALSE}, extra : {0}]

ReverseFunctors == [k : [Types -> {0, 1}], flip : BOOLEAN, extra : {0}]

InitOptic ==
    /\ ox \in {FF(NumOps, x) : x \in SeqsUpTo(Ops, MaxOperations)}
    /\ oA \in {MkBlocks(a) : a \in [1..FFSource(ox) -> Arities]}
    /\ oB \in {MkBlocks(b) : b \in [1..FFSource(ox) -> Arities]}
    /\ fun \in [F : ForwardFunctors, R : ReverseFunctors, m : [Ops -> Residuals]]
    /\ df = NoValue /\ dg = NoValue /\ dh = NoValue /\ out = NoValue
    /\ pc = "args"
    /\ calls = 0

\* out = Optic.map_operations(x, A, B)
CallMapOperations ==
    /\ pc = "args"
    /\ out' = MapOperations(fun.F, fun.R, fun.m, ox, oA, oB)
    /\ pc' = "map_operations"
    /\ calls' = 1
    /\ UNCHANGED <<df, dg, dh, ox, oA, oB, fun>>

NextOptic == CallMapOperations

SpecOptic == InitOptic /\ [][NextOptic]_vars

\* C6: for N >= 0 operations, with F.map_operations and R.map_operations
\* typed as the class expects, Optic.map_operations succeeds and returns an
\* open hypergraph whose source is the values of Optic.map_objects(A.values)
\* and whose target is the values of Optic.map_objects(B.values).
C6_MapOperations ==
    (pc = "map_operations") =>
        /\ out.ok
        /\ Source(out) = MapObjects(fun.F, fun.R, oA.values).values
        /\ Target(out) = MapObjects(fun.F, fun.R, oB.values).values

\* (diagnostic) a single operation is mapped as C6 says
OneOperationMapped ==
    (pc = "map_operations" /\ FFSource(ox) <= 1) =>
        /\ out.ok
        /\ Source(out) = MapObjects(fun.F, fun.R, oA.values).values
        /\ Target(out) = MapObjects(fun.F, fun.R, oB.values).values

\* the wires of hyperedge e (0-based) at the target ports from..from+n-1
PortsT(d, e, from, n) ==
    {d.H.t.values.tab[Offset(d.H.t.sources, e) + from + j] : j \in 1..n}

PortsS(d, e, from, n) ==
    {d.H.s.values.tab[Offset(d.H.s.sources, e) + from + j] : j \in 1..n}

OnInterface(d) == {d.s.tab[i] : i \in 1..Len(d.s.tab)} \cup {d.t.tab[i] : i \in 1..Len(d.t.tab)}

\* C9: in the diagram returned for N >= 1 operations, hyperedge i is F(x_i)
\* and hyperedge N + i is R(x_i); for every i and every position j of M_i the
\* wire at output port |FB_i| + j of F(x_i) is the wire at input port j of
\* R(x_i), it is on neither interface of the result, and no FB output port
\* or RB input port is on a residual wire.
C9_ResidualWires ==
    (pc = "map_operations" /\ out.ok /\ FFSource(ox) >= 1) =>
        LET N   == FFSource(ox)
            FB  == ICFlatmap(oB, FunctorObjects(fun.F, oB.values))
            RB  == ICFlatmap(oB, FunctorObjects(fun.R, oB.values))
            M   == Residual(fun.m, ox, oA, oB)
            res == UNION {PortsT(out, i - 1, FB.sources[i], M.sources[i]) : i \in 1..N}
        IN  /\ \A i \in 1..N : \A j \in 1..M.sources[i] :
                  out.H.t.values.tab[Offset(out.H.t.sources, i - 1) + FB.sources[i] + j]
                    = out.H.s.values.tab[Offset(out.H.s.sources, N + i - 1) + j]
            /\ res \cap OnInterface(out) = {}
            /\ \A i \in 1..N :
                  /\ PortsT(out, i - 1, 0, FB.sources[i]) \cap res = {}
                  /\ PortsS(out, N + i - 1, M.sources[i], RB.sources[i]) \cap res = {}

\* (diagnostic) C9 for a single operation
OneOperationResidual == (FFSource(ox) <= 1) => C9_ResidualWires

=============================================================================
